---- MODULE Spec2Model ----
(***************************************************************************)
(* Model of src/src/tensornetworkqecc/tensornetworkcode.py:                *)
(* class TensorNetworkCode, a facade over one quimb TensorNetwork.         *)
(*                                                                         *)
(* The heap `objs` holds Tensor objects by reference, a network holds a    *)
(* tensor_map (tid -> reference) and an ind_map (label -> set of tids)     *)
(* that is maintained incrementally by link/unlink, as the library does.   *)
(* Every public method is one action; a method that works on a clone runs  *)
(* on a world holding the owned network "self" and the clone "tn".         *)
(* Tensor data are integer arrays of extent Dim per leg, and a contraction *)
(* is evaluated numerically (sum of products).                             *)
(***************************************************************************)
EXTENDS Integers, Sequences, FiniteSets, TLC

\* ------------------------------------------------------------- bounds
MaxTensors == 3
MaxIndices == 2
\* extent of every leg and rank of every caller-built tensor: rand(2,2)
Dim == 2
Rank == 2
\* the leg names in use (src lines 109-112 name legs 'a', 'b', 'c', 'd', ...)
LabelOrder == <<"a", "b", "c", "d">>
Labels == {LabelOrder[i] : i \in DOMAIN LabelOrder}

\* ------------------------------------------------------------ helpers
Range(s) == {s[i] : i \in DOMAIN s}

EmptyMap == [x \in {} |-> 0]

Put(f, k, v) == [x \in DOMAIN f \cup {k} |-> IF x = k THEN v ELSE f[x]]

Drop(f, ks) == [x \in DOMAIN f \ ks |-> f[x]]

Max(S) == CHOOSE x \in S : \A y \in S : y <= x

Min(S) == CHOOSE x \in S : \A y \in S : x <= y

RECURSIVE SortedSeq(_)
SortedSeq(S) == IF S = {} THEN <<>> ELSE <<Min(S)>> \o SortedSeq(S \ {Min(S)})

RECURSIVE SumOver(_, _)
SumOver(f, S) ==
    IF S = {} THEN 0
    ELSE LET x == CHOOSE y \in S : TRUE IN f[x] + SumOver(f, S \ {x})

RECURSIVE ProdSeq(_)
ProdSeq(s) == IF s = <<>> THEN 1 ELSE Head(s) * ProdSeq(Tail(s))

\* the labels of a sequence of label tuples, in order of first appearance
RECURSIVE Uniq(_)
Uniq(s) ==
    IF s = <<>> THEN <<>>
    ELSE LET r == Uniq(SubSeq(s, 1, Len(s) - 1)) IN
         IF s[Len(s)] \in Range(r) THEN r ELSE Append(r, s[Len(s)])

RECURSIVE Concat(_)
Concat(ss) == IF ss = <<>> THEN <<>> ELSE Head(ss) \o Concat(Tail(ss))

Count(s, x) == Cardinality({i \in DOMAIN s : s[i] = x})

Pos(s, x) == CHOOSE i \in DOMAIN s : s[i] = x

\* ------------------------------------------------------------ tensors
Idx(k) == [1..k -> 0..(Dim - 1)]

\* qtn.Tensor(np.random.rand(2,2), inds=...): arbitrary data; the model
\* fixes one asymmetric integer array per seed.
MkData(seed, k) ==
    [ix \in Idx(k) |-> seed + SumOver([j \in 1..k |-> j * ix[j]], 1..k)]

Tensor(inds, seed) == [inds |-> inds, data |-> MkData(seed, Len(inds))]

\* leg tuples a caller may build: Rank distinct labels
LegTuples == {s \in [1..Rank -> Labels] : \A i, j \in 1..Rank : i # j => s[i] # s[j]}


\* The array-contraction primitive (einsum): sum over every label of the
\* inputs that is not in `out`, a repeated label on one input reads its
\* diagonal.
Einsum(ts, out) ==
    LET labs == UNION {Range(ts[i].inds) : i \in DOMAIN ts}
        inner == labs \ Range(out)
        Term(o, s) ==
            ProdSeq([i \in DOMAIN ts |->
                ts[i].data[[j \in DOMAIN ts[i].inds |->
                    LET l == ts[i].inds[j] IN
                    IF l \in inner THEN s[l] ELSE o[Pos(out, l)]]]])
        assigns == [inner -> 0..(Dim - 1)]
    IN [inds |-> out,
        data |-> [o \in Idx(Len(out)) |->
                    SumOver([s \in assigns |-> Term(o, s)], assigns)]]

\* ----------------------------------------------------------- networks
\* A world: the heap of Tensor objects and the networks alive in a call,
\* "self" (self.network) and "tn" (the clone).
EmptyTN == [tensor_map |-> EmptyMap, ind_map |-> EmptyMap]

NewRef(objs) == IF DOMAIN objs = {} THEN 1 ELSE Max(DOMAIN objs) + 1

NewTid(tn) == IF DOMAIN tn.tensor_map = {} THEN 1 ELSE Max(DOMAIN tn.tensor_map) + 1

SetNet(w, n, tn) == [w EXCEPT !.nets = Put(w.nets, n, tn)]

\* a link that overwrites the owners of a label instead of adding to them
LinkIndsOverwrite(tn, inds, tid) ==
    [tn EXCEPT !.ind_map =
        [l \in DOMAIN tn.ind_map \cup inds |-> IF l \in inds THEN {tid} ELSE tn.ind_map[l]]]

\* TensorNetwork._link_inds: every label of `inds` gains owner `tid`
LinkInds(tn, inds, tid) ==
    [tn EXCEPT !.ind_map =
        [l \in DOMAIN tn.ind_map \cup inds |->
            IF l \in inds
            THEN (IF l \in DOMAIN tn.ind_map THEN tn.ind_map[l] ELSE {}) \cup {tid}
            ELSE tn.ind_map[l]]]

\* TensorNetwork._unlink_inds: every label of `inds` loses owner `tid`; a
\* label left without owner loses its key
UnlinkInds(tn, inds, tid) ==
    LET im == tn.ind_map
        gone == {l \in inds \cap DOMAIN im : im[l] \ {tid} = {}}
    IN [tn EXCEPT !.ind_map =
        [l \in DOMAIN im \ gone |-> IF l \in inds THEN im[l] \ {tid} ELSE im[l]]]

\* TensorNetwork.add_tensor(t, tid, virtual=True): the object itself is held
AddTensorVirtual(w, n, ref, tid) ==
    LET tn == w.nets[n]
        tn1 == [tn EXCEPT !.tensor_map = Put(tn.tensor_map, tid, ref)]
    IN SetNet(w, n, LinkInds(tn1, Range(w.objs[ref].inds), tid))

\* TensorNetwork.add_tensor(t, tid) (virtual=False): a copy of the object
AddTensorCopy(w, n, t, tid) ==
    LET ref == NewRef(w.objs)
    IN AddTensorVirtual([w EXCEPT !.objs = Put(w.objs, ref, t)], n, ref, tid)

\* TensorNetwork.pop_tensor(tid)
PopTensor(w, n, tid) ==
    LET tn == w.nets[n]
        t == w.objs[tn.tensor_map[tid]]
        tn1 == [tn EXCEPT !.tensor_map = Drop(tn.tensor_map, {tid})]
    IN SetNet(w, n, UnlinkInds(tn1, Range(t.inds), tid))

RECURSIVE PopAll(_, _, _)
PopAll(w, n, tids) ==
    IF tids = <<>> THEN w ELSE PopAll(PopTensor(w, n, Head(tids)), n, Tail(tids))

\* labels held by exactly one tensor of the network
OuterInds(tn) == {l \in DOMAIN tn.ind_map : Cardinality(tn.ind_map[l]) = 1}

\* an output rule that keeps the labels appearing once in the group
ComputeContractedIndsOnce(w, n, tids) ==
    LET tn == w.nets[n]
        all == Concat([i \in DOMAIN tids |-> w.objs[tn.tensor_map[tids[i]]].inds])
        Once(ix) == Count(all, ix) = 1
    IN SelectSeq(Uniq(all), Once)

\* TensorNetwork.compute_contracted_inds(*tids): a label of the group stays
\* when it also lives outside the group or is an outer label
ComputeContractedInds(w, n, tids) ==
    LET tn == w.nets[n]
        all == Concat([i \in DOMAIN tids |-> w.objs[tn.tensor_map[tids[i]]].inds])
        Keep(ix) == \/ Count(all, ix) # Cardinality(tn.ind_map[ix])
                    \/ ix \in OuterInds(tn)
    IN SelectSeq(Uniq(all), Keep)

\* tn.contract_ind(ind), for ind in tn.ind_map: the tensors holding ind are
\* popped, contracted into one, and the result is added under the first tid
ContractInd(w, n, ind) ==
    LET tn == w.nets[n]
        tids == SortedSeq(tn.ind_map[ind])
        ts == [i \in DOMAIN tids |-> w.objs[tn.tensor_map[tids[i]]]]
        tnew == Einsum(ts, ComputeContractedInds(w, n, tids))
        w1 == PopAll(w, n, tids)
    IN AddTensorCopy(w1, n, tnew, tids[1])

\* the networks owning object `ref`, with the tid they hold it under
Owners(w, ref) ==
    {o \in UNION {{<<n, tid>> : tid \in DOMAIN w.nets[n].tensor_map} : n \in DOMAIN w.nets} :
        w.nets[o[1]].tensor_map[o[2]] = ref}

\* an owner update that links the new labels and forgets to unlink the old
RECURSIVE RelinkAddOnly(_, _, _, _)
RelinkAddOnly(w, owners, old, new) ==
    IF owners = {} THEN w
    ELSE LET o == CHOOSE x \in owners : TRUE
             tn1 == LinkInds(w.nets[o[1]], new \ old, o[2])
         IN RelinkAddOnly(SetNet(w, o[1], tn1), owners \ {o}, old, new)

RECURSIVE Relink(_, _, _, _)
Relink(w, owners, old, new) ==
    IF owners = {} THEN w
    ELSE LET o == CHOOSE x \in owners : TRUE
             tn1 == LinkInds(UnlinkInds(w.nets[o[1]], old \ new, o[2]), new \ old, o[2])
         IN Relink(SetNet(w, o[1], tn1), owners \ {o}, old, new)

\* a rename that leaves every owner's ind_map as it was
ReindexStale(w, ref, ind2, ind1) ==
    LET t == w.objs[ref]
        inds == [j \in DOMAIN t.inds |-> IF t.inds[j] = ind2 THEN ind1 ELSE t.inds[j]]
    IN [w EXCEPT !.objs = Put(w.objs, ref, [t EXCEPT !.inds = inds])]

\* t.reindex_({ind2: ind1}): the legs named ind2 are renamed in place and
\* the ind_map of every owner follows
Reindex(w, ref, ind2, ind1) ==
    LET t == w.objs[ref]
        inds == [j \in DOMAIN t.inds |-> IF t.inds[j] = ind2 THEN ind1 ELSE t.inds[j]]
        w1 == Relink(w, Owners(w, ref), Range(t.inds), Range(inds))
    IN [w1 EXCEPT !.objs = Put(w1.objs, ref, [t EXCEPT !.inds = inds])]

\* for t in tn.tensors: t.reindex_({ind2: ind1})
RECURSIVE ReindexAll(_, _, _, _, _)
ReindexAll(w, n, tids, ind2, ind1) ==
    IF tids = <<>> THEN w
    ELSE ReindexAll(Reindex(w, w.nets[n].tensor_map[Head(tids)], ind2, ind1),
                    n, Tail(tids), ind2, ind1)

RECURSIVE ShareInto(_, _)
ShareInto(w, tids) ==
    IF tids = <<>> THEN w
    ELSE ShareInto(AddTensorVirtual(w, "tn", w.nets["self"].tensor_map[Head(tids)], Head(tids)),
                   Tail(tids))

\* a copy that holds the original's Tensor objects instead of copies of them
CopyVirtual(w) ==
    ShareInto(SetNet(w, "tn", EmptyTN), SortedSeq(DOMAIN w.nets["self"].tensor_map))

RECURSIVE CopyInto(_, _)
CopyInto(w, tids) ==
    IF tids = <<>> THEN w
    ELSE LET self == w.nets["self"] IN
         CopyInto(AddTensorCopy(w, "tn", w.objs[self.tensor_map[Head(tids)]], Head(tids)),
                  Tail(tids))

\* tn = self.network.copy(): a new network holding a copy of every tensor
\* under the same tid
Copy(w) ==
    CopyInto(SetNet(w, "tn", EmptyTN), SortedSeq(DOMAIN w.nets["self"].tensor_map))

\* what an observer sees of network n: its tensors by value and its ind_map
Snap(w, n) ==
    [tensors |-> [tid \in DOMAIN w.nets[n].tensor_map |-> w.objs[w.nets[n].tensor_map[tid]]],
     ind_map |-> w.nets[n].ind_map]

\* ------------------------------------------------------------ results
NoResult == [kind |-> "none", exc |-> "", label |-> "", value |-> <<>>]

\* return tn
Returned(w) == [kind |-> "network", exc |-> "", label |-> "", value |-> Snap(w, "tn")]

\* raise ValueError(f"Index '{label}' not found ...")
Raised(label) == [kind |-> "error", exc |-> "ValueError", label |-> label, value |-> <<>>]

\* tn.contract_ind(label) on a label that is no key of ind_map: KeyError(label)
KeyMissing(label) == [kind |-> "error", exc |-> "KeyError", label |-> label, value |-> <<>>]

\* ValueError("The index {label} appears more than twice! ...")
HyperRaised(label) == [kind |-> "error", exc |-> "HyperIndex", label |-> label, value |-> <<>>]

HasInd(w, ind) == ind \in DOMAIN w.nets["tn"].ind_map

\* a finished call: the world it leaves, the clone as it stood after every
\* step (copy first), and what the caller gets
Done(w, steps, result) == [w |-> w, steps |-> steps, result |-> result]

\* ----------------------------------------------- TensorNetworkCode methods
\* the loop of contract_indices from position i on
RECURSIVE ContractLoop(_, _, _, _)
ContractLoop(w, indices, i, steps) ==
    IF i > Len(indices) THEN Done(w, steps, Returned(w))
    ELSE IF ~HasInd(w, indices[i]) THEN Done(w, steps, Raised(indices[i]))
    ELSE LET w1 == ContractInd(w, "tn", indices[i])
         IN ContractLoop(w1, indices, i + 1, Append(steps, Snap(w1, "tn")))

\* a contract_indices that validates the whole list before it contracts
contract_indices_upfront(w0, indices) ==
    LET w == Copy(w0)
        absent == SelectSeq(indices, LAMBDA l : ~HasInd(w, l))
    IN IF absent # <<>> THEN Done(w, <<Snap(w, "tn")>>, Raised(absent[1]))
       ELSE ContractLoop(w, indices, 1, <<Snap(w, "tn")>>)

contract_indices(w0, indices) ==
    LET w == Copy(w0) IN ContractLoop(w, indices, 1, <<Snap(w, "tn")>>)

\* a contract_two_indices that checks ind2 before ind1
contract_two_indices_swapped(w0, ind1, ind2) ==
    LET w == Copy(w0)
        s0 == <<Snap(w, "tn")>>
    IN IF ~HasInd(w, ind2) THEN Done(w, s0, Raised(ind2))
       ELSE IF ~HasInd(w, ind1) THEN Done(w, s0, Raised(ind1))
       ELSE LET w1 == ContractInd(w, "tn", ind1)
                s1 == Append(s0, Snap(w1, "tn"))
            IN IF ~HasInd(w1, ind2) THEN Done(w1, s1, KeyMissing(ind2))
               ELSE LET w2 == ContractInd(w1, "tn", ind2)
                    IN Done(w2, Append(s1, Snap(w2, "tn")), Returned(w2))

\* a contract_two_indices that looks again before the second contraction
\* and leaves a label that is gone alone
contract_two_indices_lenient(w0, ind1, ind2) ==
    LET w == Copy(w0)
        s0 == <<Snap(w, "tn")>>
    IN IF ~HasInd(w, ind1) THEN Done(w, s0, Raised(ind1))
       ELSE IF ~HasInd(w, ind2) THEN Done(w, s0, Raised(ind2))
       ELSE LET w1 == ContractInd(w, "tn", ind1)
                s1 == Append(s0, Snap(w1, "tn"))
            IN IF ~HasInd(w1, ind2) THEN Done(w1, s1, Returned(w1))
               ELSE LET w2 == ContractInd(w1, "tn", ind2)
                    IN Done(w2, Append(s1, Snap(w2, "tn")), Returned(w2))

contract_two_indices(w0, ind1, ind2) ==
    LET w == Copy(w0)
        s0 == <<Snap(w, "tn")>>
    IN IF ~HasInd(w, ind1) THEN Done(w, s0, Raised(ind1))
       ELSE IF ~HasInd(w, ind2) THEN Done(w, s0, Raised(ind2))
       ELSE LET w1 == ContractInd(w, "tn", ind1)
                s1 == Append(s0, Snap(w1, "tn"))
            IN IF ~HasInd(w1, ind2) THEN Done(w1, s1, KeyMissing(ind2))
               ELSE LET w2 == ContractInd(w1, "tn", ind2)
                    IN Done(w2, Append(s1, Snap(w2, "tn")), Returned(w2))

\* a fuse that looks ind1 up before it renames
fuse_check_before_rename(w0, ind1, ind2) ==
    LET w == Copy(w0)
        w1 == ReindexAll(w, "tn", SortedSeq(DOMAIN w.nets["tn"].tensor_map), ind2, ind1)
        s1 == <<Snap(w, "tn"), Snap(w1, "tn")>>
    IN IF ~HasInd(w, ind1) THEN Done(w1, s1, Raised(ind1))
       ELSE LET w2 == ContractInd(w1, "tn", ind1)
            IN Done(w2, Append(s1, Snap(w2, "tn")), Returned(w2))

fuse_and_contract_indices(w0, ind1, ind2) ==
    LET w == Copy(w0)
        w1 == ReindexAll(w, "tn", SortedSeq(DOMAIN w.nets["tn"].tensor_map), ind2, ind1)
        s1 == <<Snap(w, "tn"), Snap(w1, "tn")>>
    IN IF ~HasInd(w1, ind1) THEN Done(w1, s1, Raised(ind1))
       ELSE LET w2 == ContractInd(w1, "tn", ind1)
            IN Done(w2, Append(s1, Snap(w2, "tn")), Returned(w2))

\* ------------------------------------------------- full contraction
\* the tensors of self.network in tensor_map order
OwnedTensors(w) ==
    LET tn == w.nets["self"]
        tids == SortedSeq(DOMAIN tn.tensor_map)
    IN [i \in DOMAIN tids |-> w.objs[tn.tensor_map[tids[i]]]]

AllInds(ts) == Concat([i \in DOMAIN ts |-> ts[i].inds])

\* the labels the library refuses without explicit output_inds: on more
\* than two legs
HyperInds(ts) == {l \in Range(AllInds(ts)) : Count(AllInds(ts), l) > 2}

\* default output of a full contraction: the labels appearing once
OutputInds(ts) ==
    LET all == AllInds(ts)
        Once(l) == Count(all, l) = 1
    IN SelectSeq(Uniq(all), Once)

Pairs(n) == {p \in (1..n) \X (1..n) : p[1] < p[2]}

\* the pairwise contraction orders of n tensors
RECURSIVE Paths(_)
Paths(n) ==
    IF n <= 1 THEN {<<>>}
    ELSE {<<p>> \o rest : p \in Pairs(n), rest \in Paths(n - 1)}

Without(s, p) == SelectSeq([i \in DOMAIN s |-> <<i, s[i]>>], LAMBDA e : e[1] \notin {p[1], p[2]})

\* a pairwise step that sums every label the output does not name, also
\* one that a tensor still waiting carries
PairStepEager(ts, p, out) ==
    LET rest == [i \in DOMAIN Without(ts, p) |-> Without(ts, p)[i][2]]
        Needed(l) == l \in Range(out)
        keep == SelectSeq(Uniq(ts[p[1]].inds \o ts[p[2]].inds), Needed)
    IN Append(rest, Einsum(<<ts[p[1]], ts[p[2]]>>, keep))

\* one pairwise step: tensors p[1] and p[2] are contracted over the labels
\* that neither the output nor any other tensor needs
PairStep(ts, p, out) ==
    LET rest == [i \in DOMAIN Without(ts, p) |-> Without(ts, p)[i][2]]
        needed == Range(out) \cup Range(AllInds(rest))
        Needed(l) == l \in needed
        keep == SelectSeq(Uniq(ts[p[1]].inds \o ts[p[2]].inds), Needed)
    IN Append(rest, Einsum(<<ts[p[1]], ts[p[2]]>>, keep))

RECURSIVE EvalPath(_, _, _)
EvalPath(ts, path, out) ==
    IF path = <<>> THEN Einsum(<<ts[1]>>, out)
    ELSE EvalPath(PairStep(ts, Head(path), out), Tail(path), out)

\* self.network.contract(): everything into one tensor, along `path`
contract(w0, path) ==
    LET ts == OwnedTensors(w0)
        hyper == SelectSeq(Uniq(AllInds(ts)), LAMBDA l : l \in HyperInds(ts))
    IN IF hyper # <<>> THEN Done(w0, <<>>, HyperRaised(hyper[1]))
       ELSE Done(w0, <<>>, [kind |-> "tensor", exc |-> "", label |-> "",
                            value |-> EvalPath(ts, path, OutputInds(ts))])

\* ------------------------------------------------------ state machine
VARIABLES objs, network, pc, call, result, steps

vars == <<objs, network, pc, call, result, steps>>

World == [objs |-> objs, nets |-> [n \in {"self"} |-> network]]

NoCall == [op |-> "none", args |-> <<>>]

\* what the owned object keeps of a world: its network and the objects
\* that network holds
Keep(w) ==
    /\ network' = w.nets["self"]
    /\ objs' = [r \in Range(w.nets["self"].tensor_map) |-> w.objs[r]]

RECURSIVE Build(_, _, _)
Build(w, legs, i) ==
    IF i > Len(legs) THEN w
    ELSE Build(AddTensorCopy(w, "self", Tensor(legs[i], i), i), legs, i + 1)

\* Tensors get their tid in the order the caller gives them, and two
\* networks that differ only in that order are the same network up to the
\* numbering; the caller's tensors are taken in one order, by their legs.
LegRank(legs) == Pos(LabelOrder, legs[1]) * (Len(LabelOrder) + 1) + Pos(LabelOrder, legs[2])

InOrder(ls) == \A i \in 1..(Len(ls) - 1) : LegRank(ls[i]) <= LegRank(ls[i + 1])

TensorLists == {ls \in UNION {[1..n -> LegTuples] : n \in 1..MaxTensors} : InOrder(ls)}

\* the leg tuples of the tensors of self.network, in tid order
OwnedLegs == [i \in DOMAIN network.tensor_map |-> objs[network.tensor_map[i]].inds]

\* TensorNetworkCode(tensors): self.network = qtn.TensorNetwork(tensors)
Init ==
    \E legs \in TensorLists :
        LET w == Build([objs |-> EmptyMap, nets |-> [n \in {"self"} |-> EmptyTN]], legs, 1)
        IN /\ network = w.nets["self"]
           /\ objs = w.objs
           /\ pc = "idle"
           /\ call = NoCall
           /\ result = NoResult
           /\ steps = <<>>

Finish(op, args, d) ==
    /\ Keep(d.w)
    /\ pc' = "returned"
    /\ call' = [op |-> op, args |-> args]
    /\ result' = d.result
    /\ steps' = d.steps

ContractIndices ==
    /\ pc = "idle"
    /\ \E indices \in UNION {[1..n -> Labels] : n \in 0..MaxIndices} :
        Finish("contract_indices", indices, contract_indices(World, indices))

ContractTwoIndices ==
    /\ pc = "idle"
    /\ \E ind1, ind2 \in Labels :
        Finish("contract_two_indices", <<ind1, ind2>>, contract_two_indices(World, ind1, ind2))

FuseAndContractIndices ==
    /\ pc = "idle"
    /\ \E ind1, ind2 \in Labels :
        Finish("fuse_and_contract_indices", <<ind1, ind2>>,
               fuse_and_contract_indices(World, ind1, ind2))

Contract ==
    /\ pc = "idle"
    /\ \E path \in Paths(Cardinality(DOMAIN network.tensor_map)) :
        Finish("contract", path, contract(World, path))

\* add_tensor(tensor): self.network.add_tensor(tensor)
AddTensor ==
    /\ pc = "idle"
    /\ Cardinality(DOMAIN network.tensor_map) < MaxTensors
    /\ \E legs \in {l \in LegTuples : InOrder(Append(OwnedLegs, l))} :
        LET tid == NewTid(network)
        IN Keep(AddTensorCopy(World, "self", Tensor(legs, tid), tid))
    /\ UNCHANGED <<pc, call, result, steps>>

\* the caller is done with what the call gave back
Discard ==
    /\ pc = "returned"
    /\ pc' = "idle"
    /\ call' = NoCall
    /\ result' = NoResult
    /\ steps' = <<>>
    /\ UNCHANGED <<objs, network>>

Next ==
    \/ ContractIndices
    \/ ContractTwoIndices
    \/ FuseAndContractIndices
    \/ Contract
    \/ AddTensor
    \/ Discard

Spec == Init /\ [][Next]_vars

\* get_tensors(): return self.network.tensors
get_tensors == [tid \in DOMAIN network.tensor_map |-> objs[network.tensor_map[tid]]]

\* ------------------------------------------------------------- claims
Called(op) == pc = "returned" /\ call.op = op

OnClone == {"contract_indices", "contract_two_indices", "fuse_and_contract_indices"}

\* C1: a call of contract_indices, contract_two_indices or
\* fuse_and_contract_indices, whether it returns a network or fails, leaves
\* the owned network as it was: the same tensors with the same legs and data
\* (get_tensors) and the same ind_map.
C1_OwnedNetworkUntouched ==
    [][(pc = "idle" /\ pc' = "returned" /\ call'.op \in OnClone)
        => (get_tensors' = get_tensors /\ network'.ind_map = network.ind_map)]_vars

\* a fuse has renamed legs on its clone and the owned tensors still show
\* the old legs
C1_Witness ==
    /\ Called("fuse_and_contract_indices")
    /\ result.kind = "network"
    /\ steps[1].tensors = get_tensors
    /\ steps[2].tensors # get_tensors

\* C2: in contract_indices the label at position i is looked up in the
\* clone as it stands when its turn comes (steps[i]); if it is absent the
\* call fails naming that label and returns no network.  In
\* contract_two_indices both labels are looked up in the fresh clone, ind1
\* first, so with both absent the failure names ind1.
C2_MissingLabelNamed ==
    /\ Called("contract_indices") =>
        \A i \in 1..Len(call.args) :
            (i <= Len(steps) /\ call.args[i] \notin DOMAIN steps[i].ind_map)
                => /\ result.kind = "error"
                   /\ result.label = call.args[i]
                   /\ result.value = <<>>
    /\ Called("contract_two_indices") =>
        LET ind1 == call.args[1]
            ind2 == call.args[2]
            present == DOMAIN steps[1].ind_map
        IN /\ ind1 \notin present =>
                result.kind = "error" /\ result.label = ind1 /\ result.value = <<>>
           /\ (ind1 \in present /\ ind2 \notin present) =>
                result.kind = "error" /\ result.label = ind2 /\ result.value = <<>>

\* contract_two_indices with two different labels, neither on any tensor
C2_Witness ==
    /\ Called("contract_two_indices")
    /\ call.args[1] # call.args[2]
    /\ call.args[1] \notin DOMAIN network.ind_map
    /\ call.args[2] \notin DOMAIN network.ind_map
    /\ result.label = call.args[1]

C9_SequentialValidation ==
    Called("contract_indices") =>
        LET L == call.args
            k == Len(steps)
        IN /\ k >= 1 /\ k <= Len(L) + 1
           /\ \A i \in 1..(k - 1) :
                /\ L[i] \in DOMAIN steps[i].ind_map
                /\ Cardinality(steps[i].ind_map[L[i]]) >= 2
                    => /\ L[i] \notin DOMAIN steps[i + 1].ind_map
                       /\ Cardinality(DOMAIN steps[i + 1].tensors)
                            < Cardinality(DOMAIN steps[i].tensors)
           /\ k <= Len(L) =>
                /\ L[k] \notin DOMAIN steps[k].ind_map
                /\ result.kind = "error"
                /\ result.label = L[k]
           /\ k = Len(L) + 1 =>
                /\ result.kind = "network"
                /\ result.value = steps[k]

\* every label of the list was on a tensor at call time, and the call
\* failed on the second one after contracting the first
C9_Witness ==
    /\ Called("contract_indices")
    /\ Len(call.args) = 2
    /\ \A i \in 1..2 : call.args[i] \in DOMAIN network.ind_map
    /\ result.kind = "error"
    /\ Len(steps) = 2
    /\ steps[2] # steps[1]

\* the legs of tensor tid in snapshot s, and the tensors of s carrying l
Legs(s, tid) == Range(s.tensors[tid].inds)

Holders(s, l) == {tid \in DOMAIN s.tensors : l \in Legs(s, tid)}

\* every label that pointed at a consumed tensor points at the merged one
Repointed(before, after, consumed, m) ==
    \A x \in DOMAIN after.ind_map :
        /\ x \in DOMAIN before.ind_map
        /\ after.ind_map[x] = (before.ind_map[x] \ consumed)
                \cup (IF before.ind_map[x] \cap consumed # {} THEN {m} ELSE {})

Untouched(before, after, consumed) ==
    \A t \in DOMAIN before.tensors \ consumed :
        t \in DOMAIN after.tensors /\ after.tensors[t] = before.tensors[t]

OneLabelCall ==
    /\ Called("contract_indices")
    /\ Len(call.args) = 1
    /\ call.args[1] \in DOMAIN steps[1].ind_map

\* C3 as stated: contracting one present label merges its holders into one
\* tensor whose legs are the union of their legs minus that label, takes
\* the label out of ind_map, re-points the other labels and leaves the
\* other tensors alone.
C3_AsStated ==
    OneLabelCall =>
        LET l == call.args[1]
            before == steps[1]
            consumed == before.ind_map[l]
            after == result.value
        IN /\ result.kind = "network"
           /\ \E m \in DOMAIN after.tensors :
                /\ DOMAIN after.tensors = (DOMAIN before.tensors \ consumed) \cup {m}
                /\ m \notin DOMAIN before.tensors \ consumed
                /\ Legs(after, m) = UNION {Legs(before, t) : t \in consumed} \ {l}
                /\ l \notin DOMAIN after.ind_map
                /\ DOMAIN after.ind_map = DOMAIN before.ind_map \ {l}
                /\ Repointed(before, after, consumed, m)
           /\ Untouched(before, after, consumed)

\* the labels a contraction of `consumed` sums: held by two or more tensors,
\* all of them consumed
Summed(before, consumed) ==
    {x \in DOMAIN before.ind_map :
        Cardinality(before.ind_map[x]) >= 2 /\ before.ind_map[x] \subseteq consumed}

\* the matrix product of two rank-2 tensors x(p,l) and y(l,q) over l
MatMul(x, y) ==
    [o \in Idx(2) |->
        SumOver([k \in 0..(Dim - 1) |-> x.data[<<o[1], k>>] * y.data[<<k, o[2]>>]],
                0..(Dim - 1))]

\* C3 as amended: contracting one present label merges its holders into one
\* tensor whose legs are their legs minus every label held by two or more
\* tensors that are all among the holders (the label itself when two or
\* more hold it, and any other label shared only among them); exactly those
\* labels leave ind_map, so a label held by one tensor only stays, with its
\* tensor unchanged; the remaining labels are re-pointed and the other
\* tensors are left alone.  T1(a,b), T2(b,c) contracted over b give one
\* tensor (a,c) holding the matrix product.
C3_MergedLegs ==
    OneLabelCall =>
        LET l == call.args[1]
            before == steps[1]
            consumed == before.ind_map[l]
            after == result.value
            summed == Summed(before, consumed)
        IN /\ result.kind = "network"
           /\ \E m \in DOMAIN after.tensors :
                /\ DOMAIN after.tensors = (DOMAIN before.tensors \ consumed) \cup {m}
                /\ m \notin DOMAIN before.tensors \ consumed
                /\ Legs(after, m) = UNION {Legs(before, t) : t \in consumed} \ summed
                /\ Repointed(before, after, consumed, m)
                /\ Cardinality(consumed) = 1 =>
                        \A t \in consumed : after.tensors[m] = before.tensors[t]
                /\ \A t, u \in consumed :
                    (/\ t < u /\ Cardinality(consumed) = 2
                     /\ before.tensors[t].inds[2] = l /\ before.tensors[u].inds[1] = l
                     /\ before.tensors[t].inds[1] # before.tensors[u].inds[2]
                     /\ summed = {l})
                    => /\ after.tensors[m].inds
                            = <<before.tensors[t].inds[1], before.tensors[u].inds[2]>>
                       /\ after.tensors[m].data = MatMul(before.tensors[t], before.tensors[u])
           /\ DOMAIN after.ind_map = DOMAIN before.ind_map \ summed
           /\ (l \in summed <=> Cardinality(consumed) >= 2)
           /\ Untouched(before, after, consumed)

\* T1(a,b), T2(b,c): contract_indices(['b']) gives one tensor with legs (a,c)
C3_Witness ==
    /\ OneLabelCall
    /\ call.args = <<"b">>
    /\ steps[1].tensors = <<Tensor(<<"a", "b">>, 1), Tensor(<<"b", "c">>, 2)>>
    /\ result.kind = "network"
    /\ DOMAIN result.value.tensors = {1}
    /\ result.value.tensors[1].inds = <<"a", "c">>

FuseReturned == Called("fuse_and_contract_indices") /\ result.kind = "network"

\* C4 as stated: the network fuse_and_contract_indices returns has every
\* tensor that held ind1 or ind2 merged into one tensor carrying neither
\* label, and the other tensors unchanged.
C4_AsStated ==
    FuseReturned =>
        LET ind1 == call.args[1]
            ind2 == call.args[2]
            before == steps[1]
            held == Holders(before, ind1) \cup Holders(before, ind2)
            after == result.value
        IN /\ \E m \in DOMAIN after.tensors :
                /\ DOMAIN after.tensors = (DOMAIN before.tensors \ held) \cup {m}
                /\ m \notin DOMAIN before.tensors \ held
                /\ Legs(after, m) \cap {ind1, ind2} = {}
           /\ Untouched(before, after, held)

\* C4 as amended: the returned network has every tensor that held ind1 or
\* ind2 merged into one tensor and the other tensors unchanged; the merged
\* tensor carries neither label exactly when two or more tensors held them
\* and none held two different labels ind1 and ind2 at once; otherwise (one
\* holder only, or a tensor holding both) it still carries ind1.  It never
\* carries an ind2 different from ind1.  T1(a,b), T2(d,c) fused on (a,d)
\* leave one tensor with legs (b,c).
C4_FusedMerge ==
    FuseReturned =>
        LET ind1 == call.args[1]
            ind2 == call.args[2]
            before == steps[1]
            held == Holders(before, ind1) \cup Holders(before, ind2)
            both == IF ind1 = ind2 THEN {} ELSE Holders(before, ind1) \cap Holders(before, ind2)
            after == result.value
        IN /\ \E m \in DOMAIN after.tensors :
                /\ DOMAIN after.tensors = (DOMAIN before.tensors \ held) \cup {m}
                /\ m \notin DOMAIN before.tensors \ held
                /\ (ind1 \notin Legs(after, m)) <=> (Cardinality(held) >= 2 /\ both = {})
                /\ ind1 # ind2 => ind2 \notin Legs(after, m)
           /\ Untouched(before, after, held)
           /\ (/\ before.tensors = <<Tensor(<<"a", "b">>, 1), Tensor(<<"d", "c">>, 2)>>
               /\ call.args = <<"a", "d">>)
              => /\ DOMAIN after.tensors = {1}
                 /\ after.tensors[1].inds = <<"b", "c">>

\* the rename put ind1 on three tensors, which the call merged into one
C4_Witness ==
    /\ FuseReturned
    /\ call.args[1] # call.args[2]
    /\ Cardinality(Holders(steps[1], call.args[1])) = 2
    /\ Cardinality(Holders(steps[1], call.args[2])) = 1
    /\ Cardinality(Holders(steps[2], call.args[1])) = 3
    /\ Cardinality(DOMAIN result.value.tensors) = 1
    /\ call.args[1] \notin Legs(result.value, 1)

\* first rename b to a on every tensor of the owned network, then call
\* contract_indices([a]) on it
RenameThenContract(a, b) ==
    contract_indices(
        ReindexAll(World, "self", SortedSeq(DOMAIN network.tensor_map), b, a), <<a>>)

\* C5: fuse_and_contract_indices(a, b) gives what renaming b to a on every
\* tensor of the network and then contract_indices([a]) gives: the same
\* tensors with the same legs and data and the same ind_map, or a failure
\* on both sides naming the same label.
C5_FuseIsRenameThenContract ==
    Called("fuse_and_contract_indices") =>
        result = RenameThenContract(call.args[1], call.args[2]).result

\* a fuse that renamed a leg and returned a network
C5_Witness ==
    /\ FuseReturned
    /\ call.args[1] # call.args[2]
    /\ call.args[2] \in DOMAIN network.ind_map
    /\ call.args[1] \notin DOMAIN network.ind_map
    /\ result.value = RenameThenContract(call.args[1], call.args[2]).result.value

OwnedLabels == UNION {Range(get_tensors[t].inds) : t \in DOMAIN get_tensors}

\* C8: fuse_and_contract_indices(ind1, ind2) fails, naming ind1, exactly
\* when ind1 is no key of the clone's ind_map after the rename, which is
\* exactly when neither label is on any tensor; with ind2 on a tensor the
\* renamed clone's ind_map has ind1 and the call returns a network; with
\* ind2 on no tensor the rename changes nothing and the call gives what
\* contracting ind1 gives.
C8_FuseFailure ==
    Called("fuse_and_contract_indices") =>
        LET ind1 == call.args[1]
            ind2 == call.args[2]
            absentAfter == ind1 \notin DOMAIN steps[2].ind_map
        IN /\ (result.kind = "error") <=> absentAfter
           /\ result.kind = "error" =>
                result.label = ind1 /\ result.value = <<>> /\ Len(steps) = 2
           /\ absentAfter <=> (ind1 \notin OwnedLabels /\ ind2 \notin OwnedLabels)
           /\ ind2 \in OwnedLabels =>
                /\ ind1 \in DOMAIN steps[2].ind_map
                /\ Holders(steps[1], ind2) \subseteq steps[2].ind_map[ind1]
                /\ result.kind = "network"
           /\ ind2 \notin OwnedLabels =>
                /\ steps[2] = steps[1]
                /\ result = contract_indices(World, <<ind1>>).result

\* neither label is on a tensor and the call failed naming ind1
C8_Witness ==
    /\ Called("fuse_and_contract_indices")
    /\ call.args[1] # call.args[2]
    /\ call.args[1] \notin OwnedLabels
    /\ call.args[2] \notin OwnedLabels
    /\ result.kind = "error"
    /\ result.label = call.args[1]

\* ind_map of snapshot s has a key for exactly the labels on its tensors
\* and maps each to exactly the tensors carrying it
IndMapConsistent(s) ==
    /\ DOMAIN s.ind_map = UNION {Legs(s, t) : t \in DOMAIN s.tensors}
    /\ \A l \in DOMAIN s.ind_map : s.ind_map[l] = Holders(s, l)

Owned == [tensors |-> get_tensors, ind_map |-> network.ind_map]

AllConsistent ==
    /\ IndMapConsistent(Owned)
    /\ \A i \in DOMAIN steps : IndMapConsistent(steps[i])
    /\ result.kind = "network" => IndMapConsistent(result.value)

\* C10: the ind_map of the owned network, of the clone after every step of
\* a call (copy, rename, each contraction) and of every returned network
\* has a key for exactly the labels on that network's tensors and maps each
\* to exactly the tensors carrying it; add_tensor(t) keeps the tensors
\* there were, adds t, and maps every label of t to its previous owners
\* plus t.
C10_IndMapInSync ==
    /\ AllConsistent
    /\ [][/\ AllConsistent'
          /\ Cardinality(DOMAIN network'.tensor_map) > Cardinality(DOMAIN network.tensor_map)
             => \E t \in DOMAIN network'.tensor_map \ DOMAIN network.tensor_map :
                  /\ DOMAIN network'.tensor_map = DOMAIN network.tensor_map \cup {t}
                  /\ \A u \in DOMAIN network.tensor_map : get_tensors'[u] = get_tensors[u]
                  /\ \A l \in Labels :
                        LET prev == IF l \in DOMAIN network.ind_map
                                    THEN network.ind_map[l] ELSE {}
                        IN IF l \in Range(get_tensors'[t].inds)
                           THEN network'.ind_map[l] = prev \cup {t}
                           ELSE /\ (l \in DOMAIN network'.ind_map) <=> (prev # {})
                                /\ prev # {} => network'.ind_map[l] = prev]_vars

\* a fuse whose rename moved a label onto a tensor that shares ind1 with
\* two others, with the renamed clone's ind_map showing all three
C10_Witness ==
    /\ Called("fuse_and_contract_indices")
    /\ call.args[1] # call.args[2]
    /\ Len(steps) = 3
    /\ call.args[2] \in DOMAIN steps[1].ind_map
    /\ call.args[2] \notin DOMAIN steps[2].ind_map
    /\ Cardinality(steps[2].ind_map[call.args[1]]) = 3
    /\ IndMapConsistent(steps[2])

====
